---- MODULE Spec2Model ----
(***************************************************************************)
(* A model of ash, an interactive shell (pokhrelashok/ash).                *)
(*                                                                         *)
(* Strings are sequences of one-character strings, so that trimming,       *)
(* splitting, joining and prefix tests are computed as the code computes   *)
(* them.  The history file is the sequence of its bytes.                   *)
(*                                                                         *)
(* Specifications:                                                         *)
(*   SpecHist      the History store used through its API (history.rs)     *)
(*   SpecExec      process_input run on one entered line (shell.rs)        *)
(*   SpecShell     the shell from Shell::new on, driven by key events      *)
(*   SpecCd        the main loop on two lines that change the directory    *)
(*   SpecNav       history navigation with the keys pressed recorded       *)
(*   SpecParse     one call of CommandParser::parse (parser.rs)            *)
(*   SpecLongest   one call of get_longest_match (autocomplete.rs)         *)
(*   SpecComplete  one call of AutoComplete::autocomplete                  *)
(*   SpecMain      the line editor of main.rs, driven by key events        *)
(***************************************************************************)
EXTENDS Integers, Sequences, FiniteSets, TLC

VARIABLES
    \* ---- history.rs: struct History / LineReader, and the backing file
    file,                 \* bytes of the history file on disk
    commands,             \* History.commands
    position,             \* LineReader.position
    new_commands_count,   \* History.new_commands_count
    hstate,               \* "open" | "dropped": whether the History value is alive
    \* ---- bookkeeping of the history runs (not program state)
    session,              \* commands accepted by add_command since the store was opened, newest first
    fileAtOpen,           \* the file as it was when the store was opened
    held,                 \* History.commands at the last shutdown
    heldFull,             \* whether the file had been loaded completely at the last shutdown
    gen,                  \* number of stores opened so far on the file
    adds,                 \* number of add_command calls made so far
    fetches,              \* number of fetch_more calls made with the file fully loaded
    \* ---- shell.rs: struct Shell and the locals of its main loop
    input,                \* Shell.input, the line being edited / executed
    temp_input,           \* Shell.temp_input, the buffer saved when navigation starts
    was_last_up,          \* Shell.was_last_up
    index,                \* collect_input's local `index` (usize, see USub)
    raw,                  \* whether the terminal is in raw mode
    pc,                   \* where the main loop stands (see the actions)
    exitKind,             \* how the process ended: "" (running) | "break" | "exit" | "panic"
    stages,               \* process_input: the stages not yet handed to execute_command
    previous_command,     \* process_input: Option<Child>, 0 for None, else an index of children
    children,             \* the processes spawned for the current line, in spawn order
    result,               \* outcome of the last process_input: "ok" | "err" | "none"
    cwd,                  \* the process working directory
    overflow_checks,      \* whether the build panics on integer overflow (debug) or wraps (release)
    \* ---- bookkeeping of the shell runs (not program state)
    lineset,              \* the lines the key events may type
    enters,               \* number of lines entered so far
    keys,                 \* the keys pressed since the prompt, in the runs that record them
    \* ---- parser.rs and autocomplete.rs: one call of a function
    call_args,            \* the arguments of the call
    call_result,          \* what the call returned, "none" before it
    upc,                  \* "ready" | "returned"; "unused" when no call is modelled
    \* ---- main.rs: the locals of main and of its collect_input
    command_history,      \* main's command_history, oldest first
    history_before        \* bookkeeping: command_history when the line was started

histVars == <<file, commands, position, new_commands_count, hstate>>
histAux == <<session, fileAtOpen, held, heldFull, gen, adds, fetches>>
unitVars == <<call_args, call_result, upc>>
editVars == <<input, temp_input, was_last_up, index, raw>>
execVars == <<stages, previous_command, children, result, cwd>>
shellVars == <<editVars, execVars, pc, exitKind, overflow_checks, lineset, unitVars, enters,
               keys>>
mainVars == <<command_history, history_before>>
vars == <<histVars, histAux, shellVars, mainVars>>

\* main.rs is not the program running in this specification
MainUnused == command_history = <<>> /\ history_before = <<>>

----------------------------------------------------------------------------
(* Strings *)

NL == "\n"
SP == " "

\* The characters str::trim / trim_end / split_whitespace treat as whitespace.
Whitespace == {SP, NL, "\t"}

RECURSIVE TrimEnd(_)
TrimEnd(s) ==
    IF s = <<>> THEN s
    ELSE IF s[Len(s)] \in Whitespace THEN TrimEnd(SubSeq(s, 1, Len(s) - 1))
    ELSE s

RECURSIVE TrimStart(_)
TrimStart(s) ==
    IF s = <<>> THEN s
    ELSE IF s[1] \in Whitespace THEN TrimStart(Tail(s))
    ELSE s

Trim(s) == TrimStart(TrimEnd(s))

IsBlank(s) == Trim(s) = <<>>

StartsWith(s, p) == Len(p) <= Len(s) /\ SubSeq(s, 1, Len(p)) = p

EndsWith(s, p) == Len(p) <= Len(s) /\ SubSeq(s, Len(s) - Len(p) + 1, Len(s)) = p

\* [T]::join(sep)
RECURSIVE Join(_, _)
Join(ss, sep) ==
    IF ss = <<>> THEN <<>>
    ELSE IF Len(ss) = 1 THEN ss[1]
    ELSE ss[1] \o sep \o Join(Tail(ss), sep)

\* .filter(|f| !f.trim().is_empty())
RECURSIVE NonBlank(_)
NonBlank(ss) ==
    IF ss = <<>> THEN <<>>
    ELSE (IF IsBlank(Head(ss)) THEN <<>> ELSE <<Head(ss)>>) \o NonBlank(Tail(ss))

Take(ss, n) == SubSeq(ss, 1, IF n < Len(ss) THEN n ELSE Len(ss))

\* every line followed by a newline: the text of a file holding these lines
RECURSIVE TextOf(_)
TextOf(ls) == IF ls = <<>> THEN <<>> ELSE Head(ls) \o <<NL>> \o TextOf(Tail(ls))

----------------------------------------------------------------------------
(* history.rs *)

BatchSize == 10

\* BufRead::read_line from byte offset pos: the bytes up to and including the
\* next newline, or up to the end of the file.
RECURSIVE ReadLineFrom(_, _)
ReadLineFrom(f, pos) ==
    IF pos >= Len(f) THEN <<>>
    ELSE IF f[pos + 1] = NL THEN <<NL>>
    ELSE <<f[pos + 1]>> \o ReadLineFrom(f, pos + 1)

\* LineReader::read_lines: [lines, position]
RECURSIVE read_lines(_, _, _)
read_lines(f, pos, n) ==
    IF n = 0 THEN [lines |-> <<>>, position |-> pos]
    ELSE LET line == ReadLineFrom(f, pos) IN
         IF Len(line) = 0 THEN [lines |-> <<>>, position |-> pos]
         ELSE LET rest == read_lines(f, pos + Len(line), n - 1) IN
              [lines |-> <<TrimEnd(line)>> \o rest.lines, position |-> rest.position]

count == Len(commands)

get_command(i) == IF i < Len(commands) THEN commands[i + 1] ELSE <<>>

\* History::new on the file f
HistoryNew(f) ==
    LET r == read_lines(f, 0, BatchSize) IN
    /\ commands' = r.lines
    /\ position' = r.position
    /\ new_commands_count' = 0
    /\ hstate' = "open"

add_command(c) ==
    IF (IF commands = <<>> THEN <<>> ELSE commands[1]) # c
    THEN /\ commands' = <<c>> \o commands
         /\ new_commands_count' = new_commands_count + 1
         /\ session' = <<c>> \o session
    ELSE UNCHANGED <<commands, new_commands_count, session>>

FetchMoreRereads ==
    LET r == read_lines(file, 0, BatchSize) IN
    /\ commands' = commands \o r.lines
    /\ position' = r.position

\* History::fetch_more
fetch_more ==
    LET r == read_lines(file, position, BatchSize) IN
    /\ commands' = commands \o r.lines
    /\ position' = r.position

PrependToFileAppends(f, data) == f \o data

\* History::prepend_to_file: the file's new content
prepend_to_file(f, data) == data \o f

\* impl Drop for History: the string handed to prepend_to_file
DropData ==
    LET s == Join(Take(NonBlank(commands), new_commands_count), <<NL>>) IN
    IF Len(s) > 0 THEN s \o <<NL>> ELSE s

HistoryDrop ==
    /\ file' = prepend_to_file(file, DropData)
    /\ hstate' = "dropped"

----------------------------------------------------------------------------
(* SpecHist: the History store driven through its public API, dropped and  *)
(* reopened on the same file.                                              *)

MaxEnters == 1
MaxWrap == 2
MaxInput == 5

\* the value of keys in the runs that do not record the keys
Untracked == <<"-">>

\* keys after the key k has been pressed
Pressed(k) == IF keys = Untracked THEN keys ELSE Append(keys, k)

\* no single function call is modelled in this specification
UnitUnused == call_args = <<>> /\ call_result = "none" /\ upc = "unused"

\* the Shell that would own the store is not running in this specification
ShellUnused ==
    /\ input = <<>> /\ temp_input = <<>> /\ was_last_up = TRUE /\ index = 0
    /\ raw = FALSE /\ pc = "unused" /\ exitKind = ""
    /\ stages = <<>> /\ previous_command = 0 /\ children = <<>> /\ result = "none"
    /\ cwd = <<"/">>
    /\ overflow_checks = FALSE
    /\ lineset = {} /\ enters = 0 /\ keys = Untracked

MaxFileLines == 11
MaxAdds == 2
MaxSessions == 2
MaxFetches == 2

PatternLine(i) == <<<<"a">>, <<"b">>, <<"c">>>>[(i % 3) + 1]
PatternFile(n) == TextOf([i \in 1..n |-> PatternLine(i)])

HistFiles ==
    {PatternFile(n) : n \in 0..MaxFileLines}
    \cup { TextOf(<<<<"a">>, <<>>, <<"b">>>>),          \* a blank line inside
           TextOf(<<<<"a", SP>>, <<SP, "b">>>>),        \* spaces around entries
           <<"a", NL, "b">> }                           \* no final newline

HistCmds == {<<"a">>, <<"b">>, <<"a", SP>>, <<SP>>}

InitHist ==
    /\ file \in HistFiles
    /\ LET r == read_lines(file, 0, BatchSize) IN
       /\ commands = r.lines
       /\ position = r.position
    /\ new_commands_count = 0
    /\ hstate = "open"
    /\ session = <<>>
    /\ fileAtOpen = file
    /\ held = <<>>
    /\ heldFull = FALSE
    /\ gen = 1
    /\ adds = 0
    /\ fetches = 0
    /\ ShellUnused
    /\ UnitUnused
    /\ MainUnused

HistAdd(c) ==
    /\ hstate = "open"
    /\ adds < MaxAdds
    /\ add_command(c)
    /\ adds' = adds + 1
    /\ UNCHANGED <<file, position, hstate, fileAtOpen, held, heldFull, gen, fetches>>
    /\ UNCHANGED shellVars
    /\ UNCHANGED mainVars

HistFetchMore ==
    /\ hstate = "open"
    /\ position >= Len(file) => fetches < MaxFetches
    /\ fetch_more
    /\ fetches' = IF position >= Len(file) THEN fetches + 1 ELSE fetches
    /\ UNCHANGED <<file, new_commands_count, hstate, session, fileAtOpen, held, heldFull,
                   gen, adds>>
    /\ UNCHANGED shellVars
    /\ UNCHANGED mainVars

HistDrop ==
    /\ hstate = "open"
    /\ HistoryDrop
    /\ held' = commands
    /\ heldFull' = (position >= Len(file))
    /\ UNCHANGED <<commands, position, new_commands_count, session, fileAtOpen, gen, adds,
                   fetches>>
    /\ UNCHANGED shellVars
    /\ UNCHANGED mainVars

HistReopen ==
    /\ hstate = "dropped"
    /\ gen < MaxSessions
    /\ HistoryNew(file)
    /\ gen' = gen + 1
    /\ session' = <<>>
    /\ fileAtOpen' = file
    /\ UNCHANGED <<file, held, heldFull, adds, fetches>>
    /\ UNCHANGED shellVars
    /\ UNCHANGED mainVars

NextHist ==
    \/ \E c \in HistCmds : HistAdd(c)
    \/ HistFetchMore
    \/ HistDrop
    \/ HistReopen

SpecHist == InitHist /\ [][NextHist]_vars

(* Claims about the History store *)

Reverse(ss) == [i \in 1..Len(ss) |-> ss[Len(ss) + 1 - i]]

FullyLoaded == position >= Len(file)

\* C1 (as claimed): once a store reopened on the file has loaded it completely,
\* its non-blank entries reproduce, in order, the non-blank entries the previous
\* store held at shutdown (all of them when that store had loaded the whole
\* file, otherwise they come first).
HistoryRoundTrip ==
    (gen >= 2 /\ hstate = "open" /\ session = <<>> /\ FullyLoaded) =>
        IF heldFull
        THEN NonBlank(commands) = NonBlank(held)
        ELSE StartsWith(NonBlank(commands), NonBlank(held))

FetchMoreWhenLoadedIsNoOp ==
    [][fetches' # fetches =>
          /\ commands' = commands
          /\ position' = position
          /\ new_commands_count' = new_commands_count
          /\ file' = file]_vars

FetchMoreWhenLoadedWitness ==
    /\ hstate = "open"
    /\ FullyLoaded
    /\ fetches = MaxFetches
    /\ adds = MaxAdds
    /\ Len(session) = MaxAdds
    /\ Len(commands) > BatchSize

\* C20 (as claimed): as long as no blank command has been handed to
\* add_command, no entry of the store is blank, whatever the file holds.
NoBlankEntries ==
    (hstate = "open" /\ NonBlank(session) = session) =>
        \A i \in 0..(count - 1) : ~IsBlank(get_command(i))

\* the lines of a file as they are written in it, each without its newline
RECURSIVE RawLines(_)
RawLines(f) ==
    IF f = <<>> THEN <<>>
    ELSE LET l == ReadLineFrom(f, 0) IN
         <<IF l[Len(l)] = NL THEN SubSeq(l, 1, Len(l) - 1) ELSE l>>
            \o RawLines(SubSeq(f, Len(l) + 1, Len(f)))

NoAdjacentEqual(ss) == \A i \in 1..(Len(ss) - 1) : ss[i] # ss[i + 1]

\* C21 (as claimed): when the store was opened on a file without adjacent
\* equal lines, no two adjacent entries of the window are equal, after any
\* sequence of add_command and fetch_more.
NoAdjacentEqualEntries ==
    (hstate = "open" /\ NoAdjacentEqual(RawLines(fileAtOpen))) =>
        NoAdjacentEqual(commands)

\* C25 (as claimed): after shutdown the file holds its previous content and
\* the non-blank commands the session's add_command calls accepted, each once
\* (before or after the previous content, in either order), and nothing else:
\* no loaded entry is written again; with no accepted command it is unchanged.
DropWritesOnlySessionCommands ==
    hstate = "dropped" =>
        /\ file \in { TextOf(NonBlank(session)) \o fileAtOpen,
                      TextOf(Reverse(NonBlank(session))) \o fileAtOpen,
                      fileAtOpen \o TextOf(NonBlank(session)),
                      fileAtOpen \o TextOf(Reverse(NonBlank(session))) }
        /\ session = <<>> => file = fileAtOpen


----------------------------------------------------------------------------
(* shell.rs: the pipeline executor *)

\* str::find: the first index at which pat occurs in s, 0 if it does not
IndexOf(s, pat) ==
    LET hits == {i \in 1..(Len(s) - Len(pat) + 1) : SubSeq(s, i, i + Len(pat) - 1) = pat}
    IN IF hits = {} THEN 0 ELSE CHOOSE i \in hits : \A j \in hits : i <= j

\* str::split(pat)
RECURSIVE Split(_, _)
Split(s, pat) ==
    LET i == IndexOf(s, pat) IN
    IF i = 0 THEN <<s>>
    ELSE <<SubSeq(s, 1, i - 1)>> \o Split(SubSeq(s, i + Len(pat), Len(s)), pat)

RECURSIVE SplitWs(_, _)
SplitWs(s, cur) ==
    IF s = <<>> THEN (IF cur = <<>> THEN <<>> ELSE <<cur>>)
    ELSE IF Head(s) \in Whitespace
         THEN (IF cur = <<>> THEN <<>> ELSE <<cur>>) \o SplitWs(Tail(s), <<>>)
         ELSE SplitWs(Tail(s), Append(cur, Head(s)))

\* str::split_whitespace
split_whitespace(s) == SplitWs(s, <<>>)

Contains(s, ch) == \E i \in 1..Len(s) : s[i] = ch

PipeSep == <<SP, "|", SP>>

W_cd == <<"c", "d">>
W_exit == <<"e", "x", "i", "t">>
W_exit_semi == <<"e", "x", "i", "t", ";">>
W_about == <<"a", "b", "o", "u", "t">>

\* The environment: the programs found in /bin or /usr/bin, by name.
\*   e, c: programs that exit successfully (echo, cat);  t: true;  f: false
Binaries == {<<"e">>, <<"c">>, <<"t">>, <<"f">>}

\* The paths (names holding a '/') that can be executed; ./m cannot.
Executables == {<<".", "/", "e">>}

\* The file system: the directories /, /d and /em (which is empty), and what
\* fs::read_dir lists in each, sorted, with whether the entry is a directory.
Root == <<"/">>
Dirs == {Root, <<"/", "d">>, <<"/", "e", "m">>}
NoDir == <<"?">>

Entries(dir) ==
    IF dir = Root
    THEN << [name |-> <<"d">>, is_dir |-> TRUE], [name |-> <<"d", "a">>, is_dir |-> FALSE],
            [name |-> <<"e", "m">>, is_dir |-> TRUE] >>
    ELSE IF dir = <<"/", "d">> THEN << [name |-> <<"x">>, is_dir |-> FALSE] >>
    ELSE << >>

\* path resolution by the operating system, one component at a time
RECURSIVE Walk(_, _)
Walk(dir, comps) ==
    IF comps = <<>> \/ dir = NoDir THEN dir
    ELSE LET c == Head(comps) IN
         IF c \in {<<>>, <<".">>} THEN Walk(dir, Tail(comps))
         ELSE IF c = <<".", ".">> THEN Walk(Root, Tail(comps))
         ELSE IF dir = Root /\ (Root \o c) \in Dirs THEN Walk(Root \o c, Tail(comps))
         ELSE NoDir

\* the directory a path names, NoDir when it names none
ResolveDir(path) ==
    IF path = <<>> THEN NoDir
    ELSE Walk(IF path[1] = "/" THEN Root ELSE cwd, Split(path, <<"/">>))

\* whether the program exits with status 0
ExitsOk(cmd) == cmd # <<"f">>

\* Shell::resolve_command: [ok, path]
resolve_command(command) ==
    IF Contains(command, "/") THEN [ok |-> TRUE, path |-> command]
    ELSE IF command \in Binaries THEN [ok |-> TRUE, path |-> <<"/", "b", "/">> \o command]
    ELSE [ok |-> FALSE, path |-> <<>>]

\* Command::spawn succeeds on a resolved path
Spawns(path) ==
    \/ \E b \in Binaries : path = <<"/", "b", "/">> \o b
    \/ path \in Executables

\* Shell::get_stdin: 0 for Stdio::inherit(), k for the stdout pipe of child k
get_stdin(prev) ==
    IF prev # 0 /\ children[prev].stdout = "piped" THEN prev ELSE 0

GetStdoutAlwaysInherits(has_more_commands) == "inherit"

\* Shell::get_stdout
get_stdout(has_more_commands) ==
    IF has_more_commands THEN "piped" ELSE "inherit"

\* the current stage, as process_input hands it to execute_command
command_line == Trim(Head(stages))
has_more_commands == Len(stages) > 1
parts == split_whitespace(command_line)
command == Head(parts)
args == Tail(parts)

\* process_input starts: the line is split on " | "
ProcessInputBegin ==
    /\ pc = "dispatch"
    /\ Trim(input) # W_exit
    /\ stages' = Split(input, PipeSep)
    /\ previous_command' = 0
    /\ children' = <<>>
    /\ result' = "none"
    /\ pc' = "exec"
    /\ UNCHANGED <<histVars, histAux, editVars, cwd, exitKind, overflow_checks, lineset, unitVars, enters, keys>>
    /\ UNCHANGED mainVars

\* process_input returns the error of execute_command
ProcessFails ==
    /\ pc' = "process_done"
    /\ result' = "err"
    /\ previous_command' = 0
    /\ stages' = <<>>

\* the stage is done: the loop goes on, or the final command is waited for
StageDone(prev) ==
    /\ previous_command' = prev
    /\ stages' = Tail(stages)
    /\ IF Len(stages) > 1 THEN pc' = "exec" /\ result' = result
       ELSE IF prev # 0 THEN pc' = "wait" /\ result' = result
       ELSE pc' = "process_done" /\ result' = "ok"

ChangeDirectoryDefaultsToHere(as) == ResolveDir(IF as = <<>> THEN <<".">> ELSE as[1])

\* Shell::change_directory: the new working directory, NoDir on error
change_directory(as) == ResolveDir(IF as = <<>> THEN <<"/">> ELSE as[1])

\* execute_command: an empty stage
ExecuteEmpty ==
    /\ pc = "exec"
    /\ command_line = <<>>
    /\ StageDone(0)
    /\ UNCHANGED <<histVars, histAux, editVars, children, cwd, exitKind, overflow_checks, lineset, unitVars, enters, keys>>
    /\ UNCHANGED mainVars

\* execute_command: "cd" => change_directory
ExecuteCd ==
    /\ pc = "exec"
    /\ command_line # <<>>
    /\ command = W_cd
    /\ IF change_directory(args) # NoDir
       THEN cwd' = change_directory(args) /\ StageDone(0)
       ELSE cwd' = cwd /\ ProcessFails
    /\ UNCHANGED <<histVars, histAux, editVars, children, exitKind, overflow_checks, lineset, unitVars, enters, keys>>
    /\ UNCHANGED mainVars

\* execute_command: "exit" | "exit;" => std::process::exit(0); no destructor runs
ExecuteExit ==
    /\ pc = "exec"
    /\ command_line # <<>>
    /\ command \in {W_exit, W_exit_semi}
    /\ pc' = "done"
    /\ exitKind' = "exit"
    /\ UNCHANGED <<histVars, histAux, editVars, execVars, overflow_checks, lineset, unitVars, enters, keys>>
    /\ UNCHANGED mainVars

\* execute_command: "about"
ExecuteAbout ==
    /\ pc = "exec"
    /\ command_line # <<>>
    /\ command = W_about
    /\ StageDone(0)
    /\ UNCHANGED <<histVars, histAux, editVars, children, cwd, exitKind, overflow_checks, lineset, unitVars, enters, keys>>
    /\ UNCHANGED mainVars

\* execute_command: any other command is resolved and spawned
ExecuteSpawn ==
    /\ pc = "exec"
    /\ command_line # <<>>
    /\ command \notin {W_cd, W_exit, W_exit_semi, W_about}
    /\ LET stdin == get_stdin(previous_command)
           stdout == get_stdout(has_more_commands)
           resolved == resolve_command(command)
       IN IF resolved.ok /\ Spawns(resolved.path)
          THEN /\ children' = Append(children,
                     [cmd |-> command, args |-> args, stdin |-> stdin,
                      stdout |-> stdout, state |-> "running", dir |-> cwd])
               /\ StageDone(Len(children) + 1)
          ELSE /\ children' = children
               /\ ProcessFails
    /\ UNCHANGED <<histVars, histAux, editVars, cwd, exitKind, overflow_checks, lineset, unitVars, enters, keys>>
    /\ UNCHANGED mainVars

\* a spawned process runs to its end, whenever it does
ChildExit(k) ==
    /\ pc \in {"exec", "wait", "process_done"}
    /\ children[k].state = "running"
    /\ children' = [children EXCEPT ![k].state = "exited"]
    /\ UNCHANGED <<histVars, histAux, editVars, stages, previous_command, result, cwd,
                   pc, exitKind, overflow_checks, lineset, unitVars, enters, keys>>
    /\ UNCHANGED mainVars

\* process_input: final_command.wait() returns once that child has exited
WaitFinal ==
    /\ pc = "wait"
    /\ children[previous_command].state = "exited"
    /\ pc' = "process_done"
    /\ result' = "ok"
    /\ UNCHANGED <<histVars, histAux, editVars, stages, previous_command, children, cwd,
                   exitKind, overflow_checks, lineset, unitVars, enters, keys>>
    /\ UNCHANGED mainVars

\* process_input: final_command.wait() fails
WaitFails ==
    /\ pc = "wait"
    /\ pc' = "process_done"
    /\ result' = "err"
    /\ UNCHANGED <<histVars, histAux, editVars, stages, previous_command, children, cwd,
                   exitKind, overflow_checks, lineset, unitVars, enters, keys>>
    /\ UNCHANGED mainVars

----------------------------------------------------------------------------
(* SpecExec: process_input run on one entered line *)

Line(words) == Join(words, <<SP>>)

ExecLines ==
    { Line(<<<<"e">>>>),
      Line(<<<<"e">>, <<"|">>, <<"c">>>>),
      Line(<<<<"e">>, <<"|">>, <<"c">>, <<"|">>, <<"c">>>>),
      Line(<<<<"f">>, <<"&", "&">>, <<"e">>>>),
      Line(<<<<"t">>, <<"&", "&">>, <<"e">>>>),
      Line(<<<<"e">>, <<"|">>, W_cd>>),
      Line(<<<<"e">>, <<"|">>, <<>>>>),
      Line(<<<<"e">>, <<"|">>, <<"n">>>>),
      Line(<<<<"e">>, <<"|">>, W_about, <<"|">>, <<"c">>>>),
      Line(<<<<"e">>, <<"|">>, W_exit>>),
      Line(<<W_exit_semi>>),
      Line(<<W_cd>>),
      Line(<<W_cd, <<"/", "d">>>>),
      Line(<<W_cd, <<"/", "x">>>>),
      Line(<<<<"n">>>>),
      Line(<<<<".", "/", "m">>>>),
      Line(<<<<".", "/", "e">>, <<"|">>, <<"c">>>>),
      <<>>,
      <<SP>> }

InitExec ==
    /\ file = <<>> /\ commands = <<>> /\ position = 0 /\ new_commands_count = 0
    /\ hstate = "open"
    /\ session = <<>> /\ fileAtOpen = <<>> /\ held = <<>> /\ heldFull = FALSE
    /\ gen = 1 /\ adds = 0 /\ fetches = 0
    /\ input \in ExecLines
    /\ temp_input = <<>> /\ was_last_up = TRUE /\ index = 0
    /\ raw = FALSE
    /\ pc = "dispatch"
    /\ exitKind = ""
    /\ stages = <<>> /\ previous_command = 0 /\ children = <<>> /\ result = "none"
    /\ cwd \in Dirs
    /\ overflow_checks = FALSE
    /\ lineset = ExecLines /\ enters = 1 /\ keys = Untracked
    /\ UnitUnused
    /\ MainUnused

NextExec ==
    \/ ProcessInputBegin
    \/ ExecuteEmpty
    \/ ExecuteCd
    \/ ExecuteExit
    \/ ExecuteAbout
    \/ ExecuteSpawn
    \/ \E k \in 1..Len(children) : ChildExit(k)
    \/ WaitFinal
    \/ WaitFails

SpecExec == InitExec /\ [][NextExec]_vars

(* Claims about the pipeline executor *)

AndSep == <<SP, "&", "&", SP>>

\* the stages of a line, as the words of each
StageWords(line, sep) ==
    LET ss == Split(line, sep) IN [k \in 1..Len(ss) |-> split_whitespace(Trim(ss[k]))]

\* a chain of two or more programs of Binaries separated by " && "
IsChain(line) ==
    LET ws == StageWords(line, AndSep) IN
    /\ Len(ws) >= 2
    /\ \A k \in 1..Len(ws) : ws[k] # <<>> /\ ws[k][1] \in Binaries

\* the stages of a chain that conditional-AND lets start: all up to the first that fails
RECURSIVE Started(_)
Started(ws) ==
    IF ws = <<>> THEN <<>>
    ELSE IF ExitsOk(ws[1][1]) THEN <<ws[1]>> \o Started(Tail(ws))
    ELSE <<ws[1]>>

\* C4 (as claimed): when process_input has returned for a chain a && b && ...,
\* the processes spawned are the stages of the chain, in order, up to and
\* including the first stage that exits unsuccessfully.
ChainShortCircuits ==
    (pc = "process_done" /\ result = "ok" /\ IsChain(input)) =>
        LET want == Started(StageWords(input, AndSep)) IN
        /\ Len(children) = Len(want)
        /\ \A k \in 1..Len(want) : children[k].cmd = want[k][1]

\* every stage of the line is a program that resolves and can be spawned
ExternalLine(line) ==
    LET ws == StageWords(line, PipeSep) IN
    \A k \in 1..Len(ws) :
        /\ ws[k] # <<>>
        /\ ws[k][1] \notin {W_cd, W_exit, W_exit_semi, W_about}
        /\ ws[k][1] \in Binaries \cup Executables

\* C5 (as claimed): when process_input has returned without error for a line
\* of external stages, every process it spawned for the line has exited.
AllChildrenCompleted ==
    (pc = "process_done" /\ result = "ok" /\ ExternalLine(input)) =>
        \A k \in 1..Len(children) : children[k].state = "exited"

\* C6: while and after process_input runs a line of n external stages, the
\* processes spawned so far are the first stages in textual order, one each;
\* stage 1 inherits stdin, stage k > 1 reads the stdout pipe of stage k-1,
\* every stage but the last has a piped stdout and the last inherits stdout;
\* when process_input has returned there are exactly n of them.
PipelineWiring ==
    (pc \in {"exec", "wait", "process_done"} /\ ExternalLine(input)) =>
        LET ws == StageWords(input, PipeSep)
            n == Len(ws)
        IN /\ Len(children) = n - Len(stages)
           /\ pc \in {"wait", "process_done"} => Len(children) = n
           /\ \A k \in 1..Len(children) :
                 /\ children[k].cmd = ws[k][1]
                 /\ children[k].args = Tail(ws[k])
                 /\ children[k].stdin = k - 1
                 /\ children[k].stdout = (IF k < n THEN "piped" ELSE "inherit")

PipelineWiringWitness ==
    /\ pc = "process_done"
    /\ result = "ok"
    /\ ExternalLine(input)
    /\ Len(children) = 3
    /\ children[3].stdin = 2 /\ children[2].stdin = 1 /\ children[1].stdin = 0
    /\ children[1].stdout = "piped" /\ children[3].stdout = "inherit"

\* C28 (as claimed): once process_input is through the stages of a line,
\* every process spawned with a piped stdout has a spawned process reading
\* that pipe as its stdin, whatever the stage after it was.
EveryPipeHasAReader ==
    pc \in {"wait", "process_done"} =>
        \A k \in 1..Len(children) :
            children[k].stdout = "piped" =>
                \E j \in 1..Len(children) : children[j].stdin = k


----------------------------------------------------------------------------
(* shell.rs: the main loop (Shell::init) and the line editor               *)
(* (Shell::collect_input)                                                  *)

\* usize values are kept modulo 2^64 and written by the representative
\* nearest to 0: a negative r stands for 2^64 + r.  ULt is the unsigned <.
ULt(a, b) == IF (a < 0) = (b < 0) THEN a < b ELSE b < 0

\* str::replace
RECURSIVE Replace(_, _, _)
Replace(s, from, to) ==
    IF from = <<>>
    THEN (IF s = <<>> THEN to ELSE to \o <<Head(s)>> \o Replace(Tail(s), from, to))
    ELSE LET i == IndexOf(s, from) IN
         IF i = 0 THEN s
         ELSE SubSeq(s, 1, i - 1) \o to \o Replace(SubSeq(s, i + Len(from), Len(s)), from, to)

\* Regex::replace_all(s, "") for a character class
RECURSIVE RemoveChars(_, _)
RemoveChars(s, class) ==
    IF s = <<>> THEN <<>>
    ELSE (IF Head(s) \in class THEN <<>> ELSE <<Head(s)>>) \o RemoveChars(Tail(s), class)

\* [0-9a-zA-Z]
Alnum ==
    {"a", "b", "c", "d", "e", "f", "g", "h", "i", "j", "k", "l", "m", "n", "o", "p", "q",
     "r", "s", "t", "u", "v", "w", "x", "y", "z", "0", "1", "2", "3", "4", "5", "6", "7",
     "8", "9", "A", "B", "C", "D", "E", "F", "G", "H", "I", "J", "K", "L", "M", "N", "O",
     "P", "Q", "R", "S", "T", "U", "V", "W", "X", "Y", "Z"}

\* [~./]
PathChars == {"~", ".", "/"}

\* format!("/home/{}", USER), for the user u
Home == <<"/", "h", "o", "m", "e", "/", "u">>

\* the top of init's loop: input.clear(), then collect_input enables raw mode
BeginCollect ==
    /\ pc \in {"loop", "collect_err", "process_done"}
    /\ input' = <<>>
    /\ raw' = TRUE
    /\ index' = 0
    /\ pc' = "collect"
    /\ UNCHANGED <<histVars, histAux, temp_input, was_last_up, execVars, exitKind,
                   overflow_checks, lineset, unitVars, enters>>
    /\ keys' = IF keys = Untracked THEN keys ELSE <<>>
    /\ UNCHANGED mainVars

\* the characters the key events type: those of the lines of lineset
TypedChars == UNION {{l[i] : i \in 1..Len(l)} : l \in lineset}

\* KeyCode::Char(c) => handle_char_input
KeyChar(c) ==
    /\ pc = "collect"
    /\ \E l \in lineset : StartsWith(l, Append(input, c))
    /\ input' = Append(input, c)
    /\ UNCHANGED <<histVars, histAux, temp_input, was_last_up, index, raw, execVars, pc,
                   exitKind, overflow_checks, lineset, unitVars, enters>>
    /\ keys' = Pressed("Char")
    /\ UNCHANGED mainVars

\* KeyCode::Backspace => handle_backspace
KeyBackspace ==
    /\ pc = "collect"
    /\ input' = IF input # <<>> THEN SubSeq(input, 1, Len(input) - 1) ELSE input
    /\ UNCHANGED <<histVars, histAux, temp_input, was_last_up, index, raw, execVars, pc,
                   exitKind, overflow_checks, lineset, unitVars, enters>>
    /\ keys' = Pressed("Back")
    /\ UNCHANGED mainVars

\* Ctrl-C
KeyCtrlC ==
    /\ pc = "collect"
    /\ input' = <<>>
    /\ UNCHANGED <<histVars, histAux, temp_input, was_last_up, index, raw, execVars, pc,
                   exitKind, overflow_checks, lineset, unitVars, enters>>
    /\ keys' = Pressed("CtrlC")
    /\ UNCHANGED mainVars

HandleEnterRecordsBlank == add_command(input)

\* Shell::handle_enter
handle_enter ==
    IF ~IsBlank(input)
    THEN add_command(input)
    ELSE UNCHANGED <<commands, new_commands_count, session>>

\* KeyCode::Enter: raw mode is disabled, the line recorded, collect_input
\* returns Ok; at most limit lines are entered in a run
KeyEnterUpTo(limit) ==
    /\ pc = "collect"
    /\ enters < limit
    /\ input \in lineset \cup {<<>>}
    /\ raw' = FALSE
    /\ handle_enter
    /\ pc' = "dispatch"
    /\ enters' = enters + 1
    /\ UNCHANGED <<file, position, hstate, fileAtOpen, held, heldFull, gen, adds, fetches,
                   input, temp_input, was_last_up, index, execVars, exitKind,
                   overflow_checks, lineset, unitVars, keys>>
    /\ UNCHANGED mainVars

KeyEnter == KeyEnterUpTo(MaxEnters)

\* Shell::handle_arrow(i): the buffer afterwards, given the entries cmds
handle_arrow(i, cmds) ==
    IF ULt(i, Len(cmds)) THEN cmds[i + 1] ELSE input

\* the index after `if !self.was_last_up && index != 0 { index -= 1 }`
UpIndex == IF ~was_last_up /\ index # 0 THEN index - 1 ELSE index

\* KeyCode::Up.  `count() - 2` wraps when count() = 1 and overflow is not checked.
KeyUp ==
    /\ pc = "collect"
    /\ ULt(index, count)
    /\ ~(overflow_checks /\ count < 2)
    /\ LET i == UpIndex
           fetch == (i = count - 2)
           r == read_lines(file, position, BatchSize)
           cmds == IF fetch THEN commands \o r.lines ELSE commands
       IN /\ was_last_up' = TRUE
          /\ temp_input' = IF i = 0 THEN input ELSE temp_input
          /\ commands' = cmds
          /\ position' = IF fetch THEN r.position ELSE position
          /\ input' = handle_arrow(i, cmds)
          /\ index' = i + 1
    /\ UNCHANGED <<file, new_commands_count, hstate, histAux, raw, execVars, pc, exitKind,
                   overflow_checks, lineset, unitVars, enters>>
    /\ keys' = Pressed("Up")
    /\ UNCHANGED mainVars

\* the index after `if self.was_last_up { index -= 1 }` of KeyCode::Down
DownIndex == IF was_last_up THEN index - 1 ELSE index

\* KeyCode::Down.  The second `index -= 1` wraps below 0 when overflow is not checked.
KeyDown ==
    /\ pc = "collect"
    /\ index > -MaxWrap
    /\ IF index # 0
       THEN /\ ~(overflow_checks /\ DownIndex = 0)
            /\ was_last_up' = FALSE
            /\ index' = DownIndex - 1
            /\ input' = handle_arrow(DownIndex - 1, commands)
       ELSE /\ input' = temp_input
            /\ UNCHANGED <<was_last_up, index>>
    /\ UNCHANGED <<histVars, histAux, temp_input, raw, execVars, pc, exitKind,
                   overflow_checks, lineset, unitVars, enters>>
    /\ keys' = Pressed("Down")
    /\ UNCHANGED mainVars

\* a panic unwinds: Drop for Shell disables raw mode, Drop for History persists
Panic ==
    /\ pc' = "done"
    /\ exitKind' = "panic"
    /\ raw' = FALSE
    /\ HistoryDrop

\* KeyCode::Up in a build that checks overflow: `count() - 2` panics when count() = 1
KeyUpPanics ==
    /\ pc = "collect"
    /\ overflow_checks
    /\ ULt(index, count) /\ count < 2
    /\ Panic
    /\ UNCHANGED <<commands, position, new_commands_count, histAux, input, temp_input,
                   was_last_up, index, execVars, overflow_checks, lineset, unitVars, enters>>
    /\ keys' = Pressed("Up")
    /\ UNCHANGED mainVars

\* KeyCode::Down in a build that checks overflow: the second `index -= 1`
\* panics when the index is already 0
KeyDownPanics ==
    /\ pc = "collect"
    /\ overflow_checks
    /\ index # 0 /\ DownIndex = 0
    /\ Panic
    /\ UNCHANGED <<commands, position, new_commands_count, histAux, input, temp_input,
                   was_last_up, index, execVars, overflow_checks, lineset, unitVars, enters>>
    /\ keys' = Pressed("Down")
    /\ UNCHANGED mainVars

\* Shell::autocomplete, the parts of the line it works on
TabWords == split_whitespace(input)
part_command == IF TabWords = <<>> THEN <<>> ELSE TabWords[1]
LastWord == IF TabWords = <<>> THEN <<>> ELSE TabWords[Len(TabWords)]
ExpandedWord ==
    IF StartsWith(LastWord, <<"~">>) THEN Replace(LastWord, <<"~">>, Home)
    ELSE IF ~StartsWith(LastWord, <<".">>) THEN <<".", "/">> \o LastWord
    ELSE LastWord
searched_file == RemoveChars(ExpandedWord, PathChars)
part_filename == RemoveChars(ExpandedWord, Alnum)

RECURSIVE MatchingNames(_, _, _)
MatchingNames(es, dirsOnly, frag) ==
    IF es = <<>> THEN <<>>
    ELSE (IF (~dirsOnly \/ Head(es).is_dir) /\ (frag = <<>> \/ StartsWith(Head(es).name, frag))
          THEN <<Head(es).name>> ELSE <<>>) \o MatchingNames(Tail(es), dirsOnly, frag)

matching_file_names ==
    MatchingNames(Entries(ResolveDir(part_filename)), part_command = W_cd, searched_file)

\* KeyCode::Tab => Shell::autocomplete, when the directory can be listed
KeyTab ==
    /\ pc = "collect"
    /\ Len(input) < MaxInput
    /\ ResolveDir(part_filename) # NoDir
    /\ input' = IF Len(matching_file_names) = 1
                THEN Replace(input, searched_file, matching_file_names[1]) \o <<"/">>
                ELSE input
    /\ raw' = TRUE
    /\ UNCHANGED <<histVars, histAux, temp_input, was_last_up, index, execVars, pc,
                   exitKind, overflow_checks, lineset, unitVars, enters>>
    /\ keys' = Pressed("Tab")
    /\ UNCHANGED mainVars

\* KeyCode::Tab => Shell::autocomplete, when fs::read_dir fails: the error
\* leaves collect_input after disable_raw_mode
KeyTabFails ==
    /\ pc = "collect"
    /\ ResolveDir(part_filename) = NoDir
    /\ raw' = FALSE
    /\ pc' = "collect_err"
    /\ UNCHANGED <<histVars, histAux, input, temp_input, was_last_up, index, execVars,
                   exitKind, overflow_checks, lineset, unitVars, enters, keys>>
    /\ UNCHANGED mainVars

\* event::read() fails: the error leaves collect_input as it stands
KeyReadFails ==
    /\ pc = "collect"
    /\ pc' = "collect_err"
    /\ UNCHANGED <<histVars, histAux, editVars, execVars, exitKind, overflow_checks,
                   lineset, unitVars, enters, keys>>
    /\ UNCHANGED mainVars

\* init: `if self.input.trim() == "exit" { break; }`; init returns and the
\* Shell is dropped: Drop for Shell, then Drop for History
InitBreak ==
    /\ pc = "dispatch"
    /\ Trim(input) = W_exit
    /\ pc' = "done"
    /\ exitKind' = "break"
    /\ raw' = FALSE
    /\ HistoryDrop
    /\ UNCHANGED <<commands, position, new_commands_count, histAux, input, temp_input,
                   was_last_up, index, execVars, overflow_checks, lineset, unitVars, enters, keys>>
    /\ UNCHANGED mainVars

----------------------------------------------------------------------------
(* SpecShell: the shell from Shell::new on, driven by key events *)

ShellFiles == {<<>>, TextOf(<<<<"t">>>>), TextOf(<<<<"t">>, <<"n">>>>)}

ShellLines ==
    { Line(<<<<"t">>>>),
      Line(<<<<"d", "a">>>>),
      Line(<<W_cd>>),
      Line(<<W_exit>>),
      Line(<<W_exit_semi>>),
      Line(<<W_about>>) }

InitShell ==
    /\ file \in ShellFiles
    /\ LET r == read_lines(file, 0, BatchSize) IN
       /\ commands = r.lines
       /\ position = r.position
    /\ new_commands_count = 0
    /\ hstate = "open"
    /\ session = <<>> /\ fileAtOpen = file /\ held = <<>> /\ heldFull = FALSE
    /\ gen = 1 /\ adds = 0 /\ fetches = 0
    /\ input = <<>> /\ temp_input = <<>> /\ was_last_up = TRUE /\ index = 0
    /\ raw = FALSE
    /\ pc = "loop"
    /\ exitKind = ""
    /\ stages = <<>> /\ previous_command = 0 /\ children = <<>> /\ result = "none"
    /\ cwd = Root
    /\ overflow_checks \in BOOLEAN
    /\ lineset = ShellLines /\ enters = 0 /\ keys = Untracked
    /\ UnitUnused
    /\ MainUnused

NextShell ==
    \/ BeginCollect
    \/ \E c \in TypedChars : KeyChar(c)
    \/ KeyBackspace
    \/ KeyCtrlC
    \/ KeyEnter
    \/ KeyUp
    \/ KeyDown
    \/ KeyUpPanics
    \/ KeyDownPanics
    \/ KeyTab
    \/ KeyTabFails
    \/ KeyReadFails
    \/ InitBreak
    \/ NextExec

SpecShell == InitShell /\ [][NextShell]_vars

(* Claims about the main loop and the line editor *)

\* C3 (as claimed): when the process has ended through the built-in exit,
\* the history file holds every command recorded during the session, written
\* in front of what the file held when the shell started.
ExitPersistsHistory ==
    (pc = "done" /\ exitKind \in {"break", "exit"}) =>
        file = TextOf(session) \o fileAtOpen

\* C7 (as claimed): the process ends only through the built-in exit.
OnlyExitEndsTheLoop ==
    pc = "done" => exitKind \in {"break", "exit"}

\* C8 (as claimed): raw mode is enabled only while a line is being collected.
RawOnlyWhileCollecting ==
    raw => pc = "collect"

\* C15: collect_input returns Ok only from the Enter key, with the buffer as
\* it was when Enter was pressed and raw mode off; Enter hands the line to
\* add_command (which puts it first unless it is first already) if and only
\* if it is not blank; no step of line collection other than Enter adds a
\* command: the entries only grow at the far end, by lines loaded from the file.
EnterAloneEndsCollection ==
    [][/\ (pc = "collect" /\ pc' = "dispatch") =>
            /\ enters' = enters + 1
            /\ input' = input
            /\ raw' = FALSE
       /\ enters' # enters =>
            IF IsBlank(input)
            THEN commands' = commands /\ new_commands_count' = new_commands_count
            ELSE /\ commands' # <<>> /\ commands'[1] = input
                 /\ IF commands # <<>> /\ commands[1] = input
                    THEN commands' = commands /\ new_commands_count' = new_commands_count
                    ELSE /\ commands' = <<input>> \o commands
                         /\ new_commands_count' = new_commands_count + 1
       /\ (pc = "collect" /\ enters' = enters) =>
            /\ new_commands_count' = new_commands_count
            /\ session' = session
            /\ StartsWith(commands', commands)
            /\ SubSeq(commands', Len(commands) + 1, Len(commands'))
                  = read_lines(file, position, Len(commands') - Len(commands)).lines]_vars

EnterAloneWitness ==
    /\ pc = "dispatch"
    /\ enters = 1
    /\ ~IsBlank(input)
    /\ session = <<input>>
    /\ Len(commands) >= 2
    /\ commands[1] = input
    /\ new_commands_count = 1

\* C16 (as claimed): the interrupt key, pressed on a buffer of two characters
\* or more (which no other key empties), leaves the editor as at a fresh prompt:
\* the buffer is empty, no entry is selected (the next Up shows entry 0), the
\* saved buffer that Down restores when nothing is selected is empty, the
\* entries are as they were and line collection goes on.
CtrlCResetsEditor ==
    [][(KeyCtrlC /\ Len(input) >= 2) =>
          /\ input' = <<>>
          /\ index' = 0
          /\ temp_input' = <<>>
          /\ commands' = commands
          /\ pc' = "collect"]_vars

----------------------------------------------------------------------------
(* SpecCd: the main loop on lines that change the directory, two lines in a *)
(* row, typed and entered without the other keys                            *)

MaxCdEnters == 2

CdLines ==
    { Line(<<W_cd>>),
      Line(<<W_cd, <<"/", "d">>>>),
      Line(<<W_cd, <<"/", "x">>>>),
      Line(<<W_cd, <<"x">>, <<"/", "d">>>>),
      Line(<<<<"e">>, <<"|">>, W_cd, <<"n">>>>),
      Line(<<<<"t">>>>) }

InitCd ==
    /\ file = <<>> /\ commands = <<>> /\ position = 0 /\ new_commands_count = 0
    /\ hstate = "open"
    /\ session = <<>> /\ fileAtOpen = <<>> /\ held = <<>> /\ heldFull = FALSE
    /\ gen = 1 /\ adds = 0 /\ fetches = 0
    /\ input = <<>> /\ temp_input = <<>> /\ was_last_up = TRUE /\ index = 0
    /\ raw = FALSE
    /\ pc = "loop"
    /\ exitKind = ""
    /\ stages = <<>> /\ previous_command = 0 /\ children = <<>> /\ result = "none"
    /\ cwd \in Dirs
    /\ overflow_checks = FALSE
    /\ lineset = CdLines /\ enters = 0 /\ keys = Untracked
    /\ UnitUnused
    /\ MainUnused

NextCd ==
    \/ BeginCollect
    \/ \E c \in TypedChars : KeyChar(c)
    \/ KeyEnterUpTo(MaxCdEnters)
    \/ ProcessInputBegin
    \/ ExecuteEmpty
    \/ ExecuteCd
    \/ ExecuteSpawn
    \/ \E k \in 1..Len(children) : ChildExit(k)
    \/ WaitFinal
    \/ WaitFails

SpecCd == InitCd /\ [][NextCd]_vars

\* the step in which execute_command handles a cd stage
CdStep == pc = "exec" /\ stages' # stages /\ command_line # <<>> /\ command = W_cd

\* C14: a cd whose target names no directory leaves the working directory as
\* it was and makes process_input return an error to the main loop, which
\* goes on; a cd without argument makes / the working directory; nothing but
\* a cd stage changes the working directory, so that a process spawned later
\* runs in the directory of before the failed cd.
CdFailureKeepsDirectory ==
    [][/\ CdStep =>
            IF args = <<>> THEN cwd' = Root /\ result' # "err"
            ELSE IF ResolveDir(args[1]) = NoDir
            THEN cwd' = cwd /\ result' = "err" /\ pc' = "process_done" /\ exitKind' = ""
            ELSE cwd' = ResolveDir(args[1])
       /\ cwd' # cwd => CdStep
       /\ Len(children') > Len(children) => children'[Len(children')].dir = cwd
       /\ (pc = "process_done" /\ result = "err" /\ pc' # pc) => pc' = "collect"]_vars

CdFailureWitness ==
    /\ Len(session) = 2
    /\ session[2] = Line(<<W_cd, <<"/", "x">>>>)
    /\ session[1] = Line(<<<<"t">>>>)
    /\ pc = "process_done"
    /\ result = "ok"
    /\ cwd = <<"/", "d">>
    /\ Len(children) = 1
    /\ children[1].dir = <<"/", "d">>

----------------------------------------------------------------------------
(* SpecNav: history navigation at the first prompt: a buffer is typed, then *)
(* Up and Down are pressed in any order; the keys pressed are recorded      *)

MaxKeys == 12

\* the history files: n different lines, the most recent first
NavNames == <<"a", "b", "c", "d", "e", "f", "g", "h", "i", "j", "k", "l", "m">>
NavFile(n) == TextOf([i \in 1..n |-> <<NavNames[i]>>])
NavFiles == {NavFile(n) : n \in {0, 1, 2, 3, 11}}

\* the buffer that is typed
NavLines == {<<"s">>}

InitNav ==
    /\ file \in NavFiles
    /\ LET r == read_lines(file, 0, BatchSize) IN
       /\ commands = r.lines
       /\ position = r.position
    /\ new_commands_count = 0
    /\ hstate = "open"
    /\ session = <<>> /\ fileAtOpen = file /\ held = <<>> /\ heldFull = FALSE
    /\ gen = 1 /\ adds = 0 /\ fetches = 0
    /\ input = <<>> /\ temp_input = <<>> /\ was_last_up = TRUE /\ index = 0
    /\ raw = FALSE
    /\ pc = "loop"
    /\ exitKind = ""
    /\ stages = <<>> /\ previous_command = 0 /\ children = <<>> /\ result = "none"
    /\ cwd = Root
    /\ overflow_checks \in BOOLEAN
    /\ lineset = NavLines /\ enters = 0
    /\ keys = <<>>
    /\ UnitUnused
    /\ MainUnused

NextNav ==
    \/ BeginCollect
    \/ Len(keys) < MaxKeys /\ \E c \in TypedChars : KeyChar(c)
    \/ Len(keys) < MaxKeys /\ KeyUp
    \/ Len(keys) < MaxKeys /\ KeyDown
    \/ Len(keys) < MaxKeys /\ KeyUpPanics
    \/ Len(keys) < MaxKeys /\ KeyDownPanics

SpecNav == InitNav /\ [][NextNav]_vars

(* Claims about history navigation *)

\* the key k, n times
Times(k, n) == [i \in 1..n |-> k]

\* the lines of a file
RECURSIVE LinesOf(_)
LinesOf(f) ==
    IF f = <<>> THEN <<>>
    ELSE LET l == ReadLineFrom(f, 0) IN
         <<TrimEnd(l)>> \o LinesOf(SubSeq(f, Len(l) + 1, Len(f)))

\* the index of the entry that the buffer buf displays, -1 if it displays none
Shown(cmds, buf) ==
    LET at == {j \in 0..(Len(cmds) - 1) : cmds[j + 1] = buf}
    IN IF at = {} THEN -1 ELSE CHOOSE j \in at : TRUE

\* C17 (as claimed): when a buffer b has been typed at a fresh prompt and Up
\* pressed n times, 1 <= n <= count, and then Down n times, line collection
\* goes on with the buffer equal to b.
UpDownRestoresBuffer ==
    \A b \in {<<>>} \cup NavLines : \A n \in 1..MaxKeys :
        keys = Times("Char", Len(b)) \o Times("Up", n) \o Times("Down", n) =>
            pc = "collect" /\ input = b

\* C18 (as claimed): while an entry is displayed, an Up press that changes
\* the buffer displays the entry of the next greater index, and a Down press
\* on an entry other than the first displays the entry of the next smaller
\* index.
ArrowsStepByOne ==
    [][/\ (keys' = Append(keys, "Up") /\ Shown(commands, input) >= 0 /\ input' # input) =>
             Shown(commands', input') = Shown(commands, input) + 1
       /\ (keys' = Append(keys, "Down") /\ Shown(commands, input) >= 1) =>
             Shown(commands', input') = Shown(commands, input) - 1]_vars

\* C19 (as claimed): when Up has been pressed k + 1 times at a fresh prompt,
\* line collection goes on with line k of the file in the buffer; and Up has
\* no effect only when the whole file has been loaded and its last line is
\* displayed.
UpReachesEveryLine ==
    \A k \in 0..(MaxKeys - 1) :
        keys = Times("Up", k + 1) =>
            /\ pc = "collect"
            /\ k < Len(LinesOf(file))
            /\ input = LinesOf(file)[k + 1]
            /\ ~ULt(index, count) => (FullyLoaded /\ k + 1 = Len(LinesOf(file)))

\* C26 (as claimed): a Down press made while no history entry is selected
\* (index 0 and no Up pressed since the line was started) leaves the buffer
\* as it is.
DownWithoutSelectionKeepsBuffer ==
    [][(/\ keys' = Append(keys, "Down")
        /\ index = 0
        /\ \A i \in 1..Len(keys) : keys[i] # "Up") => input' = input]_vars


\* C27 (as claimed): no Up or Down press takes the navigation index below
\* zero or panics on a subtraction, and `count - 2` is computed by an Up
\* press only when count is at least 2.
NavigationNeverUnderflows ==
    [][/\ index' >= 0
       /\ exitKind' # "panic"
       /\ (keys' = Append(keys, "Up") /\ ULt(index, count)) => count >= 2]_vars


----------------------------------------------------------------------------
(* parser.rs *)

\* format!("/home/{}/", USER), for the user u
userpath == <<"/", "h", "o", "m", "e", "/", "u", "/">>

\* the commands whose entry of meta.toml has an "expects" key
ExpectsPath == {W_cd}

\* CommandParser::split_command_line, one character at a time:
\* st = [args, current, in_quotes, quote_type], quote_type "" for None
RECURSIVE SplitLoop(_, _)
SplitLoop(s, st) ==
    IF s = <<>> THEN st
    ELSE LET c == Head(s) IN
         SplitLoop(Tail(s),
            IF c \in {"\"", "'"}
            THEN IF st.in_quotes /\ st.quote_type = c
                 THEN [st EXCEPT !.in_quotes = FALSE, !.quote_type = ""]
                 ELSE IF ~st.in_quotes
                 THEN [st EXCEPT !.in_quotes = TRUE, !.quote_type = c]
                 ELSE [st EXCEPT !.current = Append(@, c)]
            ELSE IF c = SP /\ ~st.in_quotes
            THEN IF st.current # <<>>
                 THEN [st EXCEPT !.args = Append(@, st.current), !.current = <<>>]
                 ELSE st
            ELSE [st EXCEPT !.current = Append(@, c)])

split_command_line(s) ==
    LET st == SplitLoop(s, [args |-> <<>>, current |-> <<>>, in_quotes |-> FALSE,
                            quote_type |-> ""])
    IN IF st.current # <<>> THEN Append(st.args, st.current) ELSE st.args

\* CommandParser::parse_path
parse_path(s) ==
    LET a == Replace(Replace(s, <<"~", "/">>, userpath), <<"~">>, userpath)
        b == IF ~StartsWith(a, <<"/">>) THEN <<".", "/">> \o a ELSE a
    IN Split(b, <<"/">>)

\* CommandParser::parse.  `args.len() - 1` is computed in usize: with no token
\* it panics in a build that checks overflow and wraps otherwise (take() of the
\* wrapped number then takes all that is left, nothing).
parse(line, checks) ==
    LET toks == split_command_line(line) IN
    IF checks /\ Len(toks) = 0
    THEN [panicked |-> TRUE, command |-> <<>>, args |-> <<>>, paths |-> <<>>]
    ELSE LET cmd == IF toks = <<>> THEN <<>> ELSE toks[1]
             rest == IF toks = <<>> THEN <<>> ELSE Tail(toks)
             as1 == [i \in 1..Len(rest) |->
                        IF StartsWith(rest[i], <<"~">>)
                        THEN Join(parse_path(rest[i]), <<"/">>) ELSE rest[i]]
             path == IF as1 = <<>> THEN <<>> ELSE as1[Len(as1)]
             paths == parse_path(path)
             key == Join(split_whitespace(cmd), <<"_">>)
             as2 == IF path # <<>> /\ key \in ExpectsPath
                    THEN [as1 EXCEPT ![Len(as1)] = Join(paths, <<"/">>)]
                    ELSE as1
         IN [panicked |-> FALSE, command |-> cmd, args |-> as2, paths |-> paths]

----------------------------------------------------------------------------
(* SpecParse: one call of CommandParser::parse *)

MaxLineLen == 3

ParseAlphabet == {"a", SP, "\"", "'", "~", "/"}

Strings(alphabet, n) == UNION {[1..k -> alphabet] : k \in 0..n}

ParseSamples ==
    { <<"c", "d", SP, "~", "/", "a">>,
      <<"a", SP, "\"", "b", SP, "'", "c", "\"">>,
      <<"a", SP, "'", "b", SP, "c">>,
      <<"a", SP, "a", "~">>,
      <<"a", SP, "~", "/", "~">> }

ParseLines == Strings(ParseAlphabet, MaxLineLen) \cup ParseSamples

\* the rest of the program is not running in the specifications of one call
ProgramUnused ==
    /\ file = <<>> /\ commands = <<>> /\ position = 0 /\ new_commands_count = 0
    /\ hstate = "open"
    /\ session = <<>> /\ fileAtOpen = <<>> /\ held = <<>> /\ heldFull = FALSE
    /\ gen = 1 /\ adds = 0 /\ fetches = 0
    /\ input = <<>> /\ temp_input = <<>> /\ was_last_up = TRUE /\ index = 0
    /\ raw = FALSE /\ pc = "unused" /\ exitKind = ""
    /\ stages = <<>> /\ previous_command = 0 /\ children = <<>> /\ result = "none"
    /\ cwd = Root
    /\ lineset = {} /\ enters = 0 /\ keys = Untracked

InitParse ==
    /\ ProgramUnused
    /\ overflow_checks \in BOOLEAN
    /\ call_args \in {<<l>> : l \in ParseLines}
    /\ call_result = "none"
    /\ upc = "ready"
    /\ MainUnused

CallParse ==
    /\ upc = "ready"
    /\ call_result' = parse(call_args[1], overflow_checks)
    /\ upc' = "returned"
    /\ UNCHANGED <<histVars, histAux, editVars, execVars, pc, exitKind, overflow_checks,
                   lineset, enters, keys, call_args>>
    /\ UNCHANGED mainVars

NextParse == CallParse

SpecParse == InitParse /\ [][NextParse]_vars

\* C9 (as claimed): parse returns a ParsedCommand for every line: it never panics.
ParseIsTotal ==
    upc = "returned" => ~call_result.panicked

\* the role of every character of a line, read from the left with the quote
\* character that is open ("" when none is): "q" a delimiter quote, "s" a
\* separating space, "l" a literal
RECURSIVE Roles(_, _)
Roles(s, open) ==
    IF s = <<>> THEN <<>>
    ELSE LET c == Head(s) IN
         IF open = ""
         THEN IF c \in {"\"", "'"} THEN <<"q">> \o Roles(Tail(s), c)
              ELSE IF c = SP THEN <<"s">> \o Roles(Tail(s), "")
              ELSE <<"l">> \o Roles(Tail(s), "")
         ELSE IF c = open THEN <<"q">> \o Roles(Tail(s), "")
              ELSE <<"l">> \o Roles(Tail(s), open)

\* the literals between the separators at positions a and b of a line
Between(s, rs, a, b) ==
    LET lit == {i \in (a + 1)..(b - 1) : rs[i] = "l"}
        nth[k \in 0..Cardinality(lit)] ==
            IF k = 0 THEN 0
            ELSE CHOOSE i \in lit : i > nth[k - 1] /\ \A j \in lit : j > nth[k - 1] => i <= j
    IN [k \in 1..Cardinality(lit) |-> s[nth[k]]]

\* the tokens of a line: the non-empty runs of literals between separators
RefTokens(s) ==
    LET rs == Roles(s, "")
        seps == {0, Len(s) + 1} \cup {i \in 1..Len(s) : rs[i] = "s"}
        next(a) == CHOOSE b \in seps : b > a /\ \A x \in seps : x > a => b <= x
        RECURSIVE From(_)
        From(a) ==
            IF a = Len(s) + 1 THEN <<>>
            ELSE LET t == Between(s, rs, a, next(a)) IN
                 (IF t = <<>> THEN <<>> ELSE <<t>>) \o From(next(a))
    IN From(0)

\* C22 (as claimed): for every line parse returns; the tokens are the
\* non-empty runs of literal characters between the spaces outside quoted
\* regions, delimiter quotes removed; the command is the first token and the
\* arguments are the remaining tokens in order (the arguments that path
\* normalisation rewrites apart: those starting with ~ and the last argument
\* of a command that expects a path).
TokensRespectQuotes ==
    upc = "returned" =>
        LET toks == RefTokens(call_args[1]) IN
        /\ split_command_line(call_args[1]) = toks
        /\ \A i \in 1..Len(toks) : toks[i] # <<>>
        /\ ~call_result.panicked
        /\ call_result.command = (IF toks = <<>> THEN <<>> ELSE toks[1])
        /\ Len(call_result.args) = (IF toks = <<>> THEN 0 ELSE Len(toks) - 1)
        /\ \A i \in 1..Len(call_result.args) :
              \/ call_result.args[i] = toks[i + 1]
              \/ StartsWith(toks[i + 1], <<"~">>)
              \/ i = Len(call_result.args) /\ call_result.command \in ExpectsPath

\* the last argument of a line as it was typed ("" when there is none)
LastToken(line) ==
    LET toks == split_command_line(line) IN
    IF Len(toks) < 2 THEN <<>> ELSE toks[Len(toks)]

\* the normalisation C23 describes: a leading ~/ or ~ becomes the home
\* directory, nothing else is rewritten, a path not starting with / gets a
\* leading "." component, and the result is split on /
NormalPath(a) ==
    LET e == IF StartsWith(a, <<"~", "/">>) THEN userpath \o SubSeq(a, 3, Len(a))
             ELSE IF StartsWith(a, <<"~">>) THEN userpath \o SubSeq(a, 2, Len(a))
             ELSE a
        b == IF StartsWith(e, <<"/">>) THEN e ELSE <<".", "/">> \o e
    IN Split(b, <<"/">>)

\* C23 (as claimed): whenever parse returns, paths is the normalisation of the
\* last argument in which only a leading ~ or ~/ is replaced by the home
\* directory and a ~ elsewhere is kept; paths is not empty and its first
\* component is "" or ".".
OnlyLeadingTildeExpands ==
    (upc = "returned" /\ ~call_result.panicked) =>
        /\ call_result.paths = NormalPath(LastToken(call_args[1]))
        /\ call_result.paths # <<>>
        /\ call_result.paths[1] \in {<<>>, <<".">>}


----------------------------------------------------------------------------
(* autocomplete.rs: AutoComplete::get_longest_match *)

\* the loop of get_longest_match from length len on: split_at(len + 1) panics
\* when the first entry is not that long
RECURSIVE LongestLoop(_, _, _)
LongestLoop(names, longest_match, len) ==
    IF len + 1 > Len(names[1])
    THEN [panicked |-> TRUE, value |-> longest_match]
    ELSE LET trying_match == SubSeq(names[1], 1, len + 1) IN
         IF \A i \in 1..Len(names) : StartsWith(names[i], trying_match)
         THEN LongestLoop(names, trying_match, len + 1)
         ELSE [panicked |-> FALSE, value |-> longest_match]

get_longest_match(names, search) == LongestLoop(names, search, Len(search))

----------------------------------------------------------------------------
(* SpecLongest: one call of get_longest_match, on the sorted names of two  *)
(* or more directory entries that start with the search fragment           *)

MaxNameLen == 3
MaxMatches == 3

NameAlphabet == {"f", "o"}

CharLess(a, b) == a = "f" /\ b = "o"

\* the order of entries.sort()
RECURSIVE LexLess(_, _)
LexLess(a, b) ==
    IF b = <<>> THEN FALSE
    ELSE IF a = <<>> THEN TRUE
    ELSE IF Head(a) = Head(b) THEN LexLess(Tail(a), Tail(b))
    ELSE CharLess(Head(a), Head(b))

RECURSIVE Sorted(_)
Sorted(S) ==
    IF S = {} THEN <<>>
    ELSE LET m == CHOOSE x \in S : \A y \in S \ {x} : LexLess(x, y)
         IN <<m>> \o Sorted(S \ {m})

Names == Strings(NameAlphabet, MaxNameLen) \ {<<>>}

InitLongest ==
    /\ ProgramUnused
    /\ overflow_checks = FALSE
    /\ \E S \in SUBSET Names, search \in Strings(NameAlphabet, MaxNameLen) :
          /\ Cardinality(S) >= 2
          /\ Cardinality(S) <= MaxMatches
          /\ \A n \in S : StartsWith(n, search)
          /\ call_args = <<Sorted(S), search>>
    /\ call_result = "none"
    /\ upc = "ready"
    /\ MainUnused

CallLongestMatch ==
    /\ upc = "ready"
    /\ call_result' = get_longest_match(call_args[1], call_args[2])
    /\ upc' = "returned"
    /\ UNCHANGED <<histVars, histAux, editVars, execVars, pc, exitKind, overflow_checks,
                   lineset, enters, keys, call_args>>
    /\ UNCHANGED mainVars

NextLongest == CallLongestMatch

SpecLongest == InitLongest /\ [][NextLongest]_vars

\* the common prefixes of the names
CommonPrefixes(names) ==
    {p \in Strings(NameAlphabet, MaxNameLen) : \A i \in 1..Len(names) : StartsWith(names[i], p)}

\* C10 (as claimed): get_longest_match returns, and what it returns is the
\* longest string that is a prefix of every match.
LongestMatchIsLongestCommonPrefix ==
    upc = "returned" =>
        /\ ~call_result.panicked
        /\ call_result.value \in CommonPrefixes(call_args[1])
        /\ \A p \in CommonPrefixes(call_args[1]) : Len(p) <= Len(call_result.value)

----------------------------------------------------------------------------
(* autocomplete.rs: AutoComplete::autocomplete *)

\* the trailing fragment: parsed_command.paths.last()
ac_searched_file(parsed) == parsed.paths[Len(parsed.paths)]

\* paths[..len - 1].join("/")
in_path(parsed) == Join(SubSeq(parsed.paths, 1, Len(parsed.paths) - 1), <<"/">>)

\* entries.into_iter().filter(|f| f.is_dir())
RECURSIVE DirsOnly(_)
DirsOnly(es) ==
    IF es = <<>> THEN <<>>
    ELSE (IF Head(es).is_dir THEN <<Head(es)>> ELSE <<>>) \o DirsOnly(Tail(es))

\* the entries listed: those of in_path, directories only for cd
ac_entries(parsed) ==
    LET es == Entries(ResolveDir(in_path(parsed))) IN
    IF parsed.command = W_cd THEN DirsOnly(es) ELSE es

\* the Suggestions: the entries whose name starts with the fragment
RECURSIVE Matching(_, _)
Matching(es, frag) ==
    IF es = <<>> THEN <<>>
    ELSE (IF frag = <<>> \/ StartsWith(Head(es).name, frag) THEN <<Head(es)>> ELSE <<>>)
         \o Matching(Tail(es), frag)

ac_matching(parsed) == Matching(ac_entries(parsed), ac_searched_file(parsed))

\* the longest file name of the entries
MaxWidth(es) == CHOOSE w \in {Len(es[i].name) : i \in 1..Len(es)} :
                    \A i \in 1..Len(es) : Len(es[i].name) <= w

\* the branch of more than one match: the line is extended to the longest
\* match, or the matches are listed in columns (`% columns` panics when the
\* terminal is narrower than a column)
complete_many(line, frag, lm, columns) ==
    IF lm.panicked THEN [status |-> "panic", value |-> line]
    ELSE IF Len(lm.value) > Len(frag)
    THEN [status |-> "ok", value |-> Replace(line, frag, lm.value)]
    ELSE IF columns = 0 THEN [status |-> "panic", value |-> line]
    ELSE [status |-> "ok", value |-> line]

\* the branches on the number of matches
complete_matches(line, terminal_width, frag, es, ms) ==
    IF Len(ms) > 1
    THEN complete_many(line, frag,
                       get_longest_match([i \in 1..Len(ms) |-> ms[i].name], frag),
                       terminal_width \div (MaxWidth(es) + 2))
    ELSE IF Len(ms) = 1
    THEN [status |-> "ok",
          value |-> Replace(line, frag,
                       ms[1].name \o (IF ms[1].is_dir THEN <<"/">> ELSE <<>>))]
    ELSE [status |-> "ok", value |-> line]

\* autocomplete once the line is parsed
complete_parsed(line, terminal_width, parsed) ==
    IF parsed.panicked THEN [status |-> "panic", value |-> line]
    ELSE IF ResolveDir(in_path(parsed)) = NoDir THEN [status |-> "err", value |-> line]
    ELSE complete_matches(line, terminal_width, ac_searched_file(parsed),
                          ac_entries(parsed), ac_matching(parsed))

\* AutoComplete::autocomplete(command, parser) in a terminal terminal_width
\* columns wide: [status, value], status "ok" for Ok(value), "err" for Err,
\* "panic" for a panic
autocomplete(line, terminal_width, checks) ==
    complete_parsed(line, terminal_width, parse(line, checks))

----------------------------------------------------------------------------
(* SpecComplete: one call of AutoComplete::autocomplete *)

CompleteLines ==
    { Line(<<<<"e">>, <<"/", "d", "/">>>>),
      Line(<<<<"e">>, <<"e">>>>),
      Line(<<<<"e">>, <<"d">>>>),
      Line(<<<<"e">>, <<"d", "a">>>>),
      Line(<<<<"e">>, <<"x">>>>),
      Line(<<<<"e">>, <<"z", "z">>>>),
      Line(<<<<"e">>, <<"/", "z">>>>),
      Line(<<<<"e">>, <<"/", "n", "/", "z">>>>),
      Line(<<<<"e">>, <<"/", "d", "/", "z">>>>),
      Line(<<<<"e">>, <<"/", "d", "/", "x">>>>),
      Line(<<W_cd, <<"d">>>>),
      Line(<<W_cd, <<"/", "d", "/">>>>),
      Line(<<<<"e">>>>),
      Line(<<<<"e">>, <<".", "/">>>>),
      <<>>,
      <<SP>> }

TerminalWidths == {1, 80}

InitComplete ==
    /\ file = <<>> /\ commands = <<>> /\ position = 0 /\ new_commands_count = 0
    /\ hstate = "open"
    /\ session = <<>> /\ fileAtOpen = <<>> /\ held = <<>> /\ heldFull = FALSE
    /\ gen = 1 /\ adds = 0 /\ fetches = 0
    /\ input = <<>> /\ temp_input = <<>> /\ was_last_up = TRUE /\ index = 0
    /\ raw = FALSE /\ pc = "unused" /\ exitKind = ""
    /\ stages = <<>> /\ previous_command = 0 /\ children = <<>> /\ result = "none"
    /\ cwd \in Dirs
    /\ lineset = {} /\ enters = 0 /\ keys = Untracked
    /\ overflow_checks \in BOOLEAN
    /\ call_args \in {<<l, w>> : l \in CompleteLines, w \in TerminalWidths}
    /\ call_result = "none"
    /\ upc = "ready"
    /\ MainUnused

CallAutocomplete ==
    /\ upc = "ready"
    /\ call_result' = autocomplete(call_args[1], call_args[2], overflow_checks)
    /\ upc' = "returned"
    /\ UNCHANGED <<histVars, histAux, editVars, execVars, pc, exitKind, overflow_checks,
                   lineset, enters, keys, call_args>>
    /\ UNCHANGED mainVars

NextComplete == CallAutocomplete

SpecComplete == InitComplete /\ [][NextComplete]_vars

(* Claims about completion *)

\* the last argument of a line, as typed: the text after the last space
LastArg(line) ==
    LET sp == {i \in 1..Len(line) : line[i] = SP}
        k == IF sp = {} THEN 0 ELSE CHOOSE i \in sp : \A j \in sp : j <= i
    IN SubSeq(line, k + 1, Len(line))

\* the position of the last '/' of a word, 0 if it has none
LastSlash(w) ==
    LET sl == {i \in 1..Len(w) : w[i] = "/"}
    IN IF sl = {} THEN 0 ELSE CHOOSE i \in sl : \A j \in sl : j <= i

\* the trailing fragment of a line and the directory its path prefix names
FragmentOf(line) == LET w == LastArg(line) IN SubSeq(w, LastSlash(w) + 1, Len(w))
DirOf(line) ==
    LET w == LastArg(line) IN
    IF LastSlash(w) = 0 THEN cwd ELSE ResolveDir(SubSeq(w, 1, LastSlash(w)))

\* a line made of a command and one argument, such as `e /d/x`
HasArgument(line) ==
    /\ Len(split_whitespace(line)) = 2
    /\ line = Line(split_whitespace(line))

\* the entries of the directory that completion offers for the line
Candidates(line) ==
    Matching(IF split_whitespace(line)[1] = W_cd THEN DirsOnly(Entries(DirOf(line)))
             ELSE Entries(DirOf(line)),
             FragmentOf(line))

\* C11 (as claimed): when the call has returned for a line whose directory
\* lists exactly one entry matching the trailing fragment, it returned the
\* line with that fragment, and nothing before it, replaced by the entry's
\* name, followed by a path separator if and only if the entry is a directory.
SingleMatchReplacesFragment ==
    LET line == call_args[1] IN
    (upc = "returned" /\ HasArgument(line) /\ DirOf(line) # NoDir
        /\ Len(Candidates(line)) = 1) =>
        LET m == Candidates(line)[1] IN
        /\ call_result.status = "ok"
        /\ call_result.value =
              SubSeq(line, 1, Len(line) - Len(FragmentOf(line)))
                 \o m.name \o (IF m.is_dir THEN <<"/">> ELSE <<>>)

\* C12 (as claimed): when the call has returned for a line (a command and one
\* argument, or a blank line) whose directory can be listed and has no entry
\* that starts with the trailing fragment, it returned the line unchanged and
\* no error.
NoMatchLeavesLine ==
    LET line == call_args[1] IN
    (upc = "returned" /\ (HasArgument(line) \/ IsBlank(line)) /\ DirOf(line) # NoDir
        /\ Matching(Entries(DirOf(line)), FragmentOf(line)) = <<>>) =>
        /\ call_result.status = "ok"
        /\ call_result.value = line

\* whether the entries share a prefix longer than n characters
Extendable(es, n) ==
    /\ \A j \in 1..Len(es) : Len(es[j].name) > n
    /\ \A j \in 1..Len(es) : es[j].name[n + 1] = es[1].name[n + 1]

\* C24 (as claimed): when the call has returned for a line (a command and one
\* argument) whose directory lists several entries matching the trailing
\* fragment, none of them the fragment itself, and no common prefix of them is
\* longer than the fragment, it returned the line unchanged and did not panic,
\* whatever the width of the terminal.
ListingNeverDividesByZero ==
    LET line == call_args[1] IN
    (upc = "returned" /\ HasArgument(line) /\ DirOf(line) # NoDir
        /\ Len(Candidates(line)) > 1
        /\ \A i \in 1..Len(Candidates(line)) : Candidates(line)[i].name # FragmentOf(line)
        /\ ~Extendable(Candidates(line), Len(FragmentOf(line)))) =>
        /\ call_result.status = "ok"
        /\ call_result.value = line

----------------------------------------------------------------------------
(* main.rs: main and its line editor collect_input                         *)

MaxMainEnters == 2
MaxMainKeys == 5

\* the lines the key events may type
MainLines == {<<"a">>, W_exit}
MainChars == UNION {{l[i] : i \in 1..Len(l)} : l \in MainLines}

\* the rest of the program is not running in this specification
MainOnly ==
    /\ file = <<>> /\ commands = <<>> /\ position = 0 /\ new_commands_count = 0
    /\ hstate = "open"
    /\ session = <<>> /\ fileAtOpen = <<>> /\ held = <<>> /\ heldFull = FALSE
    /\ gen = 1 /\ adds = 0 /\ fetches = 0
    /\ temp_input = <<>> /\ was_last_up = TRUE
    /\ stages = <<>> /\ previous_command = 0 /\ children = <<>> /\ result = "none"
    /\ cwd = Root
    /\ lineset = MainLines
    /\ UnitUnused

mainRest == <<histVars, histAux, temp_input, was_last_up, execVars, overflow_checks,
              lineset, unitVars>>

\* main: input and command_history are empty before the loop
InitMain ==
    /\ MainOnly
    /\ input = <<>> /\ index = 0 /\ raw = FALSE
    /\ pc = "main_loop" /\ exitKind = ""
    /\ overflow_checks \in BOOLEAN
    /\ enters = 0 /\ keys = <<>>
    /\ command_history = <<>> /\ history_before = <<>>

\* the top of main's loop: input.clear(); collect_input enables raw mode and
\* sets index to command_history.len(); at most MaxMainEnters lines are
\* collected in a run
MainBeginCollect ==
    /\ pc = "main_loop"
    /\ enters < MaxMainEnters
    /\ input' = <<>>
    /\ raw' = TRUE
    /\ index' = Len(command_history)
    /\ pc' = "main_collect"
    /\ keys' = <<>>
    /\ history_before' = command_history
    /\ UNCHANGED <<mainRest, exitKind, enters, command_history>>

\* KeyCode::Char(c) => handle_char_input
MainKeyChar(c) ==
    /\ pc = "main_collect"
    /\ Len(keys) < MaxMainKeys
    /\ \E l \in MainLines : StartsWith(l, Append(input, c))
    /\ input' = Append(input, c)
    /\ keys' = Append(keys, "Char")
    /\ UNCHANGED <<mainRest, index, raw, pc, exitKind, enters, mainVars>>

\* KeyCode::Backspace => handle_backspace
MainKeyBackspace ==
    /\ pc = "main_collect"
    /\ Len(keys) < MaxMainKeys
    /\ input' = IF input # <<>> THEN SubSeq(input, 1, Len(input) - 1) ELSE input
    /\ keys' = Append(keys, "Back")
    /\ UNCHANGED <<mainRest, index, raw, pc, exitKind, enters, mainVars>>

\* handle_enter of main.rs: command_history afterwards
main_handle_enter(current_input, history) ==
    IF ~IsBlank(current_input) THEN Append(history, current_input) ELSE history

\* KeyCode::Enter: raw mode is disabled, the line recorded, collect_input
\* returns Ok
MainKeyEnter ==
    /\ pc = "main_collect"
    /\ enters < MaxMainEnters
    /\ raw' = FALSE
    /\ command_history' = main_handle_enter(input, command_history)
    /\ pc' = "main_process"
    /\ enters' = enters + 1
    /\ keys' = Append(keys, "Enter")
    /\ UNCHANGED <<mainRest, input, index, exitKind, history_before>>

\* handle_arrow of main.rs: the buffer afterwards
main_handle_arrow(current_input, current_index, history) ==
    IF ULt(current_index, Len(history)) THEN history[current_index + 1] ELSE current_input

\* KeyCode::Up
MainKeyUp ==
    /\ pc = "main_collect"
    /\ Len(keys) < MaxMainKeys
    /\ IF index # 0
       THEN LET h == IF index = Len(command_history)
                     THEN Append(command_history, input) ELSE command_history
            IN /\ command_history' = h
               /\ index' = index - 1
               /\ input' = main_handle_arrow(input, index - 1, h)
       ELSE UNCHANGED <<command_history, index, input>>
    /\ keys' = Append(keys, "Up")
    /\ UNCHANGED <<mainRest, raw, pc, exitKind, enters, history_before>>

\* KeyCode::Down.  `command_history.len() - 1` wraps when the history is empty
\* and overflow is not checked.
MainKeyDown ==
    /\ pc = "main_collect"
    /\ Len(keys) < MaxMainKeys
    /\ ~(overflow_checks /\ Len(command_history) = 0)
    /\ IF ULt(index, Len(command_history) - 1)
       THEN /\ index' = index + 1
            /\ input' = main_handle_arrow(input, index + 1, command_history)
            /\ command_history' =
                  IF index + 1 = Len(command_history) - 1
                  THEN SubSeq(command_history, 1, Len(command_history) - 1)
                  ELSE command_history
       ELSE UNCHANGED <<command_history, index, input>>
    /\ keys' = Append(keys, "Down")
    /\ UNCHANGED <<mainRest, raw, pc, exitKind, enters, history_before>>

\* KeyCode::Down in a build that checks overflow: `command_history.len() - 1`
\* panics when the history is empty; nothing restores the terminal
MainKeyDownPanics ==
    /\ pc = "main_collect"
    /\ Len(keys) < MaxMainKeys
    /\ overflow_checks
    /\ Len(command_history) = 0
    /\ pc' = "done"
    /\ exitKind' = "panic"
    /\ keys' = Append(keys, "Down")
    /\ UNCHANGED <<mainRest, input, index, raw, enters, mainVars>>

\* no key for 500 ms: `if input.trim() == "exit" { break; }`; collect_input
\* returns Ok with the terminal still in raw mode
MainIdleBreak ==
    /\ pc = "main_collect"
    /\ Trim(input) = W_exit
    /\ pc' = "main_process"
    /\ enters' = enters + 1
    /\ UNCHANGED <<mainRest, input, index, raw, exitKind, keys, mainVars>>

\* event::read() fails: collect_input returns the error, which main ignores
MainKeyReadFails ==
    /\ pc = "main_collect"
    /\ pc' = "main_process"
    /\ enters' = enters + 1
    /\ UNCHANGED <<mainRest, input, index, raw, exitKind, keys, mainVars>>

\* process_input of main.rs on a line of one stage: "exit" ends the process,
\* anything else is run (or fails) and the loop goes on
MainProcessInput ==
    /\ pc = "main_process"
    /\ IF split_whitespace(Trim(input)) # <<>> /\ Head(split_whitespace(Trim(input))) = W_exit
       THEN pc' = "done" /\ exitKind' = "exit"
       ELSE pc' = "main_loop" /\ exitKind' = exitKind
    /\ UNCHANGED <<mainRest, input, index, raw, enters, keys, mainVars>>

NextMain ==
    \/ MainBeginCollect
    \/ \E c \in MainChars : MainKeyChar(c)
    \/ MainKeyBackspace
    \/ MainKeyEnter
    \/ MainKeyUp
    \/ MainKeyDown
    \/ MainKeyDownPanics
    \/ MainIdleBreak
    \/ MainKeyReadFails
    \/ MainProcessInput

SpecMain == InitMain /\ [][NextMain]_vars

(* Claims about the line editor of main.rs *)

\* C29 (as claimed): when a line has been ended with Enter, whatever keys were
\* pressed before, command_history is what it was when the line was started,
\* followed by the entered line if that is not blank, and by nothing else.
NavigationKeepsMainHistory ==
    (pc = "main_process" /\ keys # <<>> /\ keys[Len(keys)] = "Enter") =>
        command_history = main_handle_enter(input, history_before)

====
